---- MODULE Spec2Model ----
(***************************************************************************)
(* A model of the card-binding automation (auto_bind_card.py) and of the   *)
(* accounts router (accounts.py).                                          *)
(*                                                                         *)
(* Text is modelled as a sequence of one-character strings, so that the    *)
(* string functions of the code (filtering, padding, slicing, splitting,   *)
(* trimming) are computed the way the code computes them.                  *)
(*                                                                         *)
(* The specifications of the module:                                       *)
(*   ExpSpec        the expiry normalisation and the typing of the expiry  *)
(*   SplitSpec      _split_account_line                                    *)
(*   ImportSpec     the import, update and delete endpoints                *)
(*   RoundTripSpec  export followed by import into an empty store          *)
(*   Spec           one run of an entry point (bind_card_sync or           *)
(*                  test_bind_card_with_browser) around auto_bind_card     *)
(*   SelSpec        the selector-fallback loops of the funnel              *)
(*   ZipSpec        the postal code step of the card entry                 *)
(*   ConcSpec       two runs at the same time, through the files written   *)
(***************************************************************************)
EXTENDS Integers, Sequences, FiniteSets, TLC

VARIABLES
    \* ---- ExpSpec: _normalize_exp_parts and the expiry fill -------------
    exp_month,      \* card_info['exp_month'] as supplied
    exp_year,       \* card_info['exp_year'] as supplied
    exp_parts,      \* the pair returned by _normalize_exp_parts
    exp_value,      \* the text typed into the expiry input
    epc,            \* "start" -> "normalized" -> "filled"
    \* ---- SplitSpec: _split_account_line --------------------------------
    line,           \* the account line
    separator,      \* the caller's separator
    parts,          \* the returned list of parts
    spc,            \* "start" -> "split"
    \* ---- Spec: one run of an entry point --------------------------------
    entry,          \* "bind_card_sync", "test_bind_card_with_browser" or "__main__"
    close_after,    \* the close_after argument of bind_card_sync
    card_info,      \* the card_info argument: NoCard (None) or a card
    account_info,   \* the account_info dict, NoAccount for None
    pc,             \* the position of the run in the code
    opened,         \* openBrowser has reported success
    closeCalls,     \* the number of closeBrowser(browser_id) calls
    acts,           \* the UI actions performed on the page, in order
    input_count,    \* the number of inputs found in the card form frame
    entered,        \* the card number typed into the card number input
    moveCalls,      \* the number of AccountManager.move_to_subscribed calls
    printed,        \* the card data written to the log output
    bindlog,        \* the records appended to the bind record file
    totp,           \* "not_handled" once the recovery-email handler left a code prompt unresolved
    marker,         \* what the scan after the click on an existing Subscribe found
    login,          \* the result of check_and_login
    abc,            \* the result of auto_bind_card
    pending,        \* the result _run holds while its finally blocks run
    typed,          \* the fills of the card form that returned: input index and text
    manual,         \* the manual-verification marker was detected in the login
    card_frame,     \* the scans for the card form frame and the frame they found
    ret,            \* what the entry point gave its caller
    \* ---- ImportSpec: the import endpoint over the account store ---------
    accounts,       \* the rows of the accounts table, in insertion order
    request,        \* the ImportRequest of the latest call (content, separator)
    response,       \* what the latest call returned (imported, errors)
    icalls,         \* the number of import calls served
    \* ---- SelSpec: a selector-fallback loop of the funnel ------------------
    sel_kind,       \* "cta" (lines 194-204) or "subscribe" (lines 234-251)
    sel_scopes,     \* the number of scopes the loop goes over (the page, then its frames)
    sel_scope,      \* the scope the loop is at (counted from 1)
    sel_idx,        \* the candidate the loop is at (counted from 1)
    sel_seen,       \* what each candidate tried so far came to, in order
    sel_clicked,    \* the candidates whose click returned, in order
    sel_pc,         \* "loop" -> "after_loop" -> "next_step"
    \* ---- ZipSpec: the postal code of the card entry (lines 647-664) ------
    zip_code,       \* card_info.get('zip', '')
    zip_count,      \* input_count: the number of inputs of the card form frame
    zip_types,      \* the type attribute of the inputs from index 3 on
    zip_i,          \* the loop variable i
    zip_filled,     \* the indexes of the inputs the postal code was filled into
    zip_failed,     \* an exception was printed and passed over
    zip_pc,         \* "start" -> "loop" -> "save"
    \* ---- ConcSpec: two runs at the same time ------------------------------
    run_pc,         \* for each run, the number of file writes it has done
    run_len,        \* for each run, the number of file writes it gets to
    files,          \* for each file written so far, the runs that wrote it, in order
    \* ---- RoundTripSpec: export, then import into an empty store ----------
    store,          \* the rows of the accounts table that is exported
    export,         \* the ExportResponse (content, count)
    restored,       \* the empty store after the import of the exported content
    rt_pc           \* "create" -> "exported" -> "imported"

expVars == <<exp_month, exp_year, exp_parts, exp_value, epc>>
splitVars == <<line, separator, parts, spc>>
runVars == <<entry, close_after, card_info, account_info, pc, opened, closeCalls,
             acts, input_count, entered, moveCalls, printed, bindlog, totp, marker,
             login, abc, pending, typed, manual, card_frame, ret>>
impVars == <<accounts, request, response, icalls>>
selVars == <<sel_kind, sel_scopes, sel_scope, sel_idx, sel_seen, sel_clicked, sel_pc>>
zipVars == <<zip_code, zip_count, zip_types, zip_i, zip_filled, zip_failed, zip_pc>>
concVars == <<run_pc, run_len, files>>
rtVars == <<store, export, restored, rt_pc>>
vars == <<expVars, splitVars, runVars, impVars, selVars, zipVars, concVars, rtVars>>

\* what the actions of one specification leave alone
notExp == <<splitVars, runVars, impVars, selVars, zipVars, concVars, rtVars>>
notSplit == <<expVars, runVars, impVars, selVars, zipVars, concVars, rtVars>>
notRun == <<expVars, splitVars, impVars, selVars, zipVars, concVars, rtVars>>
notImp == <<expVars, splitVars, runVars, selVars, zipVars, concVars, rtVars>>
notSel == <<expVars, splitVars, runVars, impVars, zipVars, concVars, rtVars>>
notZip == <<expVars, splitVars, runVars, impVars, selVars, concVars, rtVars>>
notConc == <<expVars, splitVars, runVars, impVars, selVars, zipVars, rtVars>>
notRt == <<expVars, splitVars, runVars, impVars, selVars, zipVars, concVars>>

(***************************************************************************)
(* General helpers on sequences of characters.                             *)
(***************************************************************************)
Max(a, b) == IF a >= b THEN a ELSE b

\* s[-n:] of Python: the last n characters, the whole of s when it is shorter.
LastN(s, n) == SubSeq(s, Max(1, Len(s) - n + 1), Len(s))

\* All sequences over chars of length at most n.
RECURSIVE SeqsUpTo(_, _)
SeqsUpTo(chars, n) ==
    IF n = 0 THEN {<<>>}
    ELSE LET shorter == SeqsUpTo(chars, n - 1)
         IN  shorter \cup {Append(s, c) : s \in shorter, c \in chars}

(***************************************************************************)
(* _normalize_exp_parts (auto_bind_card.py lines 39-56).                   *)
(***************************************************************************)
DigitVal == ("0" :> 0) @@ ("1" :> 1) @@ ("2" :> 2) @@ ("3" :> 3) @@ ("4" :> 4)
            @@ ("5" :> 5) @@ ("6" :> 6) @@ ("7" :> 7) @@ ("8" :> 8) @@ ("9" :> 9)
DigitChar == <<"0", "1", "2", "3", "4", "5", "6", "7", "8", "9">>
AsciiDigits == DOMAIN DigitVal

\* A character for which str.isdigit() is true and int() raises ValueError
\* (a superscript two), and one that is no digit at all (a slash or a blank).
SupDigit == "sup2"
NonDigit == "/"

IsDigit(ch) == ch \in AsciiDigits \cup {SupDigit}

\* "".join(ch for ch in (s or "").strip() if ch.isdigit())
DigitsOf(s) == SelectSeq(s, IsDigit)

\* int(s) raises ValueError exactly when s holds a character that is no
\* decimal digit (s is non-empty where the code calls it).
IntRaises(s) == \E i \in 1..Len(s) : s[i] \notin AsciiDigits

RECURSIVE IntOf(_)
IntOf(s) ==
    IF s = <<>> THEN 0
    ELSE 10 * IntOf(SubSeq(s, 1, Len(s) - 1)) + DigitVal[s[Len(s)]]

\* str(n) for n >= 0
RECURSIVE StrOf(_)
StrOf(n) ==
    IF n < 10 THEN <<DigitChar[n + 1]>>
    ELSE Append(StrOf(n \div 10), DigitChar[(n % 10) + 1])

\* s.zfill(w)
RECURSIVE ZFill(_, _)
ZFill(s, w) == IF Len(s) >= w THEN s ELSE ZFill(<<"0">> \o s, w)

\* if len(x) == 1: x = f"0{x}"
Pad1_Always(s) == IF Len(s) >= 1 THEN <<"0">> \o s ELSE s
Pad1(s) == IF Len(s) = 1 THEN <<"0">> \o s ELSE s

\* if len(yy) >= 4: yy = yy[-2:]
CutYear(s) == IF Len(s) >= 4 THEN LastN(s, 2) ELSE s

\* if mm_i > 12 and 1 <= yy_i <= 12
LooksReversed_From12(mm_i, yy_i) == mm_i >= 12 /\ 1 <= yy_i /\ yy_i <= 12
LooksReversed(mm_i, yy_i) == mm_i > 12 /\ 1 <= yy_i /\ yy_i <= 12

_normalize_exp_parts(m, y) ==
    LET mm == Pad1(DigitsOf(m))
        yy == Pad1(CutYear(DigitsOf(y)))
    IN  IF (mm # <<>> /\ IntRaises(mm)) \/ (yy # <<>> /\ IntRaises(yy))
        THEN <<mm, yy>>                         \* except ValueError
        ELSE LET mm_i == IF mm # <<>> THEN IntOf(mm) ELSE 0
                 yy_i == IF yy # <<>> THEN IntOf(yy) ELSE 0
             IN  IF LooksReversed(mm_i, yy_i)
                 THEN <<ZFill(yy, 2), LastN(StrOf(mm_i), 2)>>
                 ELSE <<mm, yy>>

(***************************************************************************)
(* ExpSpec: the expiry of a card as the card-entry stage handles it.       *)
(***************************************************************************)
MaxMonthLen == 2
MaxYearLen == 4
ExpChars == {"0", "1", "2", NonDigit, SupDigit}

ExpIdle ==
    /\ exp_month = <<>> /\ exp_year = <<>>
    /\ exp_parts = <<>> /\ exp_value = <<>> /\ epc = "idle"

SplitIdle ==
    /\ line = <<>> /\ separator = <<>> /\ parts = <<>> /\ spc = "idle"

\* a result pair (success, message); NoResult while there is none yet
NoResult == [done |-> FALSE, success |-> FALSE, message |-> ""]
Result(ok, msg) == [done |-> TRUE, success |-> ok, message |-> msg]

\* what the caller of an entry point gets: a returned pair or an exception
NotReturned == [state |-> "pending", success |-> FALSE, message |-> ""]
Returned(r) == [state |-> "returned", success |-> r.success, message |-> r.message]
Raised(what) == [state |-> "raised", success |-> FALSE, message |-> what]

\* a frame URL: does it hold 'instrumentmanager', does it hold 'payments.google.com'
FrameUrl(im, pay) == [instrumentmanager |-> im, payments |-> pay]
NoFrame == [scans |-> 0, found |-> FALSE, url |-> FrameUrl(FALSE, FALSE)]

NoAccount == [given |-> FALSE, email |-> <<>>, secret |-> <<>>]
NoCard == [given |-> FALSE, number |-> <<>>, exp_month |-> <<>>, exp_year |-> <<>>,
           cvv |-> <<>>, zip |-> <<>>]

\* input_count before the inputs of the card form frame were counted
NotCounted == 0 - 1

RunIdle ==
    /\ entry = "idle" /\ close_after = FALSE /\ card_info = NoCard
    /\ account_info = NoAccount /\ pc = "idle" /\ opened = FALSE
    /\ closeCalls = 0 /\ acts = <<>> /\ input_count = NotCounted
    /\ entered = <<>> /\ moveCalls = 0 /\ printed = {} /\ bindlog = <<>>
    /\ totp = "none" /\ marker = "none" /\ login = NoResult /\ abc = NoResult /\ pending = NoResult
    /\ manual = FALSE /\ card_frame = NoFrame /\ typed = <<>>
    /\ ret = NotReturned

NoRequest == [content |-> <<>>, separator |-> <<>>]
NoResponse == [imported |-> 0, errors |-> <<>>]

ImpIdle ==
    /\ accounts = <<>> /\ request = NoRequest /\ response = NoResponse /\ icalls = 0

SelIdle ==
    /\ sel_kind = "idle" /\ sel_scopes = 0 /\ sel_scope = 0 /\ sel_idx = 0
    /\ sel_seen = <<>> /\ sel_clicked = <<>> /\ sel_pc = "idle"

ZipIdle ==
    /\ zip_code = <<>> /\ zip_count = 0 /\ zip_types = <<>> /\ zip_i = 0
    /\ zip_filled = <<>> /\ zip_failed = FALSE /\ zip_pc = "idle"

ConcIdle ==
    /\ run_pc = <<>> /\ run_len = <<>> /\ files = <<>>

NoExport == [content |-> <<>>, count |-> 0]
NoImport == [rows |-> <<>>, imported |-> 0, errors |-> <<>>]

RtIdle ==
    /\ store = <<>> /\ export = NoExport /\ restored = NoImport /\ rt_pc = "idle"

ExpInit ==
    /\ exp_month \in SeqsUpTo(ExpChars, MaxMonthLen)
    /\ exp_year \in SeqsUpTo(ExpChars, MaxYearLen)
    /\ exp_parts = <<>>
    /\ exp_value = <<>>
    /\ epc = "start"
    /\ SplitIdle /\ RunIdle /\ ImpIdle /\ SelIdle /\ ZipIdle /\ ConcIdle /\ RtIdle

\* exp_month, exp_year = _normalize_exp_parts(card_info.get('exp_month', ''), ...)
NormalizeExp ==
    /\ epc = "start"
    /\ exp_parts' = _normalize_exp_parts(exp_month, exp_year)
    /\ epc' = "normalized"
    /\ UNCHANGED <<exp_month, exp_year, exp_value, notExp>>

\* exp_value = f"{exp_month}{exp_year}"; await exp_date_input.fill(exp_value)
FillExp ==
    /\ epc = "normalized"
    /\ exp_value' = exp_parts[1] \o exp_parts[2]
    /\ epc' = "filled"
    /\ UNCHANGED <<exp_month, exp_year, exp_parts, notExp>>

ExpNext == NormalizeExp \/ FillExp
ExpSpec == ExpInit /\ [][ExpNext]_vars

(***************************************************************************)
(* _split_account_line (web/backend/routers/accounts.py lines 22-33).      *)
(***************************************************************************)
Whitespace == {" ", "\t", "\n"}

\* sep in s
Occurs(sep, s) ==
    \E i \in 1..(Len(s) - Len(sep) + 1) : SubSeq(s, i, i + Len(sep) - 1) = sep

\* s.find(sep) + 1 where sep occurs in s
FirstAt(sep, s) ==
    CHOOSE i \in 1..(Len(s) - Len(sep) + 1) :
        /\ SubSeq(s, i, i + Len(sep) - 1) = sep
        /\ \A j \in 1..(i - 1) : SubSeq(s, j, j + Len(sep) - 1) # sep

\* s.split(sep) for a non-empty sep: cut at each occurrence, left to right,
\* empty pieces kept.
RECURSIVE SplitOn(_, _)
SplitOn(s, sep) ==
    IF ~Occurs(sep, s) THEN <<s>>
    ELSE LET i == FirstAt(sep, s)
         IN  <<SubSeq(s, 1, i - 1)>> \o SplitOn(SubSeq(s, i + Len(sep), Len(s)), sep)

\* s.strip()
RECURSIVE Strip(_)
Strip(s) ==
    IF s = <<>> THEN s
    ELSE IF s[1] \in Whitespace THEN Strip(Tail(s))
    ELSE IF s[Len(s)] \in Whitespace THEN Strip(SubSeq(s, 1, Len(s) - 1))
    ELSE s

\* the length of the longest prefix of s free of whitespace
RECURSIVE TokenLen(_)
TokenLen(s) ==
    IF s = <<>> \/ s[1] \in Whitespace THEN 0 ELSE 1 + TokenLen(Tail(s))

\* s.split(): cut at runs of whitespace, no empty pieces.
RECURSIVE SplitWhitespace(_)
SplitWhitespace(s) ==
    IF s = <<>> THEN <<>>
    ELSE IF s[1] \in Whitespace THEN SplitWhitespace(Tail(s))
    ELSE LET n == TokenLen(s)
         IN  <<SubSeq(s, 1, n)>> \o SplitWhitespace(SubSeq(s, n + 1, Len(s)))

\* for sep in ['----', '---', '|', ',', ';', '\t']
PrioritySeps ==
    << <<"-", "-", "-", "-">>, <<"-", "-", "-">>, <<"|">>, <<",">>, <<";">>, <<"\t">> >>

\* the loop over the priority list: the pieces for the first separator that
\* occurs in the line, whitespace splitting when none does
RECURSIVE SplitByPriority(_, _)
SplitByPriority(s, seps) ==
    IF seps = <<>> THEN SplitWhitespace(s)
    ELSE IF Occurs(Head(seps), s) THEN SplitOn(s, Head(seps))
    ELSE SplitByPriority(s, Tail(seps))

\* [p.strip() for p in parts if p.strip()]
RECURSIVE StripNonEmpty(_)
StripNonEmpty(ps) ==
    IF ps = <<>> THEN <<>>
    ELSE LET p == Strip(Head(ps))
         IN  (IF p # <<>> THEN <<p>> ELSE <<>>) \o StripNonEmpty(Tail(ps))

\* if separator and separator in line
UseCallerSeparator_Never(s, sep) == FALSE
UseCallerSeparator(s, sep) == sep # <<>> /\ Occurs(sep, s)

_split_account_line(s, sep) ==
    StripNonEmpty(IF UseCallerSeparator(s, sep)
                  THEN SplitOn(s, sep)
                  ELSE SplitByPriority(s, PrioritySeps))

(***************************************************************************)
(* SplitSpec: one call of _split_account_line.                             *)
(***************************************************************************)
MaxLineLen == 6
LineChars == {"a", "-", ",", " ", "\t"}
CallerSeparators == {<<>>, <<"-", "-", "-", "-">>, <<",">>}

SplitInit ==
    /\ line \in SeqsUpTo(LineChars, MaxLineLen)
    /\ separator \in CallerSeparators
    /\ parts = <<>>
    /\ spc = "start"
    /\ ExpIdle /\ RunIdle /\ ImpIdle /\ SelIdle /\ ZipIdle /\ ConcIdle /\ RtIdle

SplitLine ==
    /\ spc = "start"
    /\ parts' = _split_account_line(line, separator)
    /\ spc' = "split"
    /\ UNCHANGED <<line, separator, notSplit>>

SplitNext == SplitLine
SplitSpec == SplitInit /\ [][SplitNext]_vars


(***************************************************************************)
(* ImportSpec: import_accounts (accounts.py lines 182-215), with the       *)
(* update and delete endpoints, over the rows of the accounts table.       *)
(* DBManager.upsert_account is not part of the sources at hand: it is      *)
(* modelled from the specification (unique key = email).                   *)
(***************************************************************************)
\* a field that was not given (None); the parts of a line are never empty
None == <<>>

HasAccount(rows, email) == \E i \in 1..Len(rows) : rows[i].email = email

\* DBManager.upsert_account(email, password, recovery_email, secret_key, status):
\* the row of that email is updated (a field that is None keeps its value),
\* a new row is inserted when there is none
UpsertAccount(rows, email, password, recovery_email, secret_key, status) ==
    IF HasAccount(rows, email)
    THEN [i \in 1..Len(rows) |->
            IF rows[i].email = email
            THEN [email |-> email,
                  password |-> IF password # None THEN password ELSE rows[i].password,
                  recovery_email |-> IF recovery_email # None THEN recovery_email
                                     ELSE rows[i].recovery_email,
                  secret_key |-> IF secret_key # None THEN secret_key ELSE rows[i].secret_key,
                  status |-> IF status # "" THEN status ELSE rows[i].status]
            ELSE rows[i]]
    ELSE Append(rows, [email |-> email, password |-> password,
                       recovery_email |-> recovery_email, secret_key |-> secret_key,
                       status |-> IF status # "" THEN status ELSE "pending"])

\* if not line or line.startswith("#"): continue
SkippedLine(l) == l = <<>> \/ l[1] = "#"

\* email = parts[0].strip()
ImportEmail_Last(ps) == Strip(ps[Len(ps)])
ImportEmail(ps) == Strip(ps[1])

\* parts[i].strip() if len(parts) > i else None   (i counted from 1 here)
ImportField(ps, i) == IF Len(ps) >= i THEN Strip(ps[i]) ELSE None

\* the loop over the lines from line k on; raises[k] tells whether the
\* upsert of line k raises (the email then goes to the errors)
RECURSIVE ImportFrom(_, _, _, _, _)
ImportFrom(k, lines, sep, raises, st) ==
    IF k > Len(lines) THEN st
    ELSE LET l == Strip(lines[k])
             ps == _split_account_line(l, sep)
         IN  IF SkippedLine(l) \/ Len(ps) < 1
             THEN ImportFrom(k + 1, lines, sep, raises, st)
             ELSE IF raises[k]
             THEN ImportFrom(k + 1, lines, sep, raises,
                             [st EXCEPT !.errors = Append(@, ImportEmail(ps))])
             ELSE ImportFrom(k + 1, lines, sep, raises,
                             [st EXCEPT !.rows = UpsertAccount(@, ImportEmail(ps), ImportField(ps, 2),
                                                               ImportField(ps, 3), ImportField(ps, 4),
                                                               "pending"),
                                        !.imported = @ + 1])

\* lines = data.content.strip().split("\n")
ContentLines(content) == SplitOn(Strip(content), <<"\n">>)

\* the lines a request is made of, and the requests: one or two lines
ImportLineSet ==
    { <<"a", ",", "p">>, <<" ", "a", ",", "q">>, <<"b">>, <<"#", "b">>, <<>> }
ImportContents ==
    ImportLineSet \cup {l1 \o <<"\n">> \o l2 : l1 \in ImportLineSet, l2 \in ImportLineSet}
ImportSeparators == { <<"-", "-", "-", "-">>, <<",">> }
StoredEmails == { <<"a">>, <<"b">> }
MaxImportCalls == 2

ImportInit ==
    /\ accounts = <<>>
    /\ request = NoRequest
    /\ response = NoResponse
    /\ icalls = 0
    /\ ExpIdle /\ SplitIdle /\ RunIdle /\ SelIdle /\ ZipIdle /\ ConcIdle /\ RtIdle

\* POST /import
ImportAccounts ==
    /\ icalls < MaxImportCalls
    /\ \E content \in ImportContents, sep \in ImportSeparators :
          LET lines == ContentLines(content)
          IN  \E raises \in [1..Len(lines) -> BOOLEAN] :
                 LET out == ImportFrom(1, lines, sep, raises,
                                       [rows |-> accounts, imported |-> 0, errors |-> <<>>])
                 IN  /\ accounts' = out.rows
                     /\ response' = [imported |-> out.imported, errors |-> out.errors]
                     /\ request' = [content |-> content, separator |-> sep]
    /\ icalls' = icalls + 1
    /\ UNCHANGED notImp

\* PUT /{email}: 404 when there is no such account, else an upsert with the
\* given status
UpdateAccount ==
    /\ \E email \in StoredEmails, status \in {"pending", "subscribed"} :
          /\ HasAccount(accounts, email)
          /\ accounts' = UpsertAccount(accounts, email, None, None, None, status)
    /\ UNCHANGED <<request, response, icalls, notImp>>

\* DELETE /{email}: 404 when there is no such account, else
\* DELETE FROM accounts WHERE email = ?
DeleteAccount ==
    /\ \E email \in StoredEmails :
          /\ HasAccount(accounts, email)
          /\ accounts' = SelectSeq(accounts, LAMBDA row : row.email # email)
    /\ UNCHANGED <<request, response, icalls, notImp>>

ImportNext == ImportAccounts \/ UpdateAccount \/ DeleteAccount
ImportSpec == ImportInit /\ [][ImportNext]_vars


(***************************************************************************)
(* RoundTripSpec: accounts are created (accounts.py lines 124-139), the     *)
(* store is exported (lines 218-237) and the exported content is imported  *)
(* into an empty store (lines 182-215).                                    *)
(***************************************************************************)
\* sep.join(ps)
RECURSIVE JoinWith(_, _)
JoinWith(ps, sep) ==
    IF ps = <<>> THEN <<>>
    ELSE IF Len(ps) = 1 THEN ps[1]
    ELSE ps[1] \o sep \o JoinWith(Tail(ps), sep)

\* if acc.get("password"): parts.append(acc["password"])   (and the like)
ExportPart(v) == IF v # None THEN <<v>> ELSE <<>>

\* parts = [acc.get("email", "")] ... lines.append("----".join(parts))
ExportLine(acc) ==
    JoinWith(<<acc.email>> \o ExportPart(acc.password) \o ExportPart(acc.recovery_email)
                 \o ExportPart(acc.secret_key),
             <<"-", "-", "-", "-">>)

\* content="\n".join(lines)
ExportContent(rows) ==
    JoinWith([i \in 1..Len(rows) |-> ExportLine(rows[i])], <<"\n">>)

\* the AccountCreate bodies of POST "": password, recovery_email and
\* secret_key are optional
AccountCreates ==
    [email : StoredEmails, password : {None, <<"p">>},
     recovery_email : {None, <<"r">>}, secret_key : {None, <<"s">>}]
MaxStored == 2

RoundTripInit ==
    /\ store = <<>>
    /\ export = NoExport
    /\ restored = NoImport
    /\ rt_pc = "create"
    /\ ExpIdle /\ SplitIdle /\ RunIdle /\ ImpIdle /\ SelIdle /\ ZipIdle /\ ConcIdle

\* POST "": 400 when the account exists, else an upsert with status pending
CreateAccount ==
    /\ rt_pc = "create"
    /\ Len(store) < MaxStored
    /\ \E data \in AccountCreates :
          /\ ~HasAccount(store, data.email)
          /\ store' = UpsertAccount(store, data.email, data.password, data.recovery_email,
                                    data.secret_key, "pending")
    /\ UNCHANGED <<export, restored, rt_pc, notRt>>

\* GET /export/all
ExportAccounts ==
    /\ rt_pc = "create"
    /\ export' = [content |-> ExportContent(store), count |-> Len(store)]
    /\ rt_pc' = "exported"
    /\ UNCHANGED <<store, restored, notRt>>

\* POST /import of the exported content, into an empty store
ImportExported ==
    /\ rt_pc = "exported"
    /\ \E sep \in ImportSeparators :
          LET lines == ContentLines(export.content)
          IN  \E raises \in [1..Len(lines) -> BOOLEAN] :
                 restored' = ImportFrom(1, lines, sep, raises, NoImport)
    /\ rt_pc' = "imported"
    /\ UNCHANGED <<store, export, notRt>>

RoundTripNext == CreateAccount \/ ExportAccounts \/ ImportExported
RoundTripSpec == RoundTripInit /\ [][RoundTripNext]_vars

(***************************************************************************)
(* Spec: one run of an entry point.  The page, the account store, the      *)
(* browser provisioner and the file system are the environment: each call  *)
(* into them ends in one of the outcomes the call can have, an exception   *)
(* among them.                                                             *)
(***************************************************************************)
\* DEFAULT_CARD = _load_default_card()
DEFAULT_CARD ==
    [given |-> TRUE, number |-> <<"5", "5", "0", "0", "1", "2", "3", "4">>,
     exp_month |-> <<"1", "2">>, exp_year |-> <<"2", "7">>,
     cvv |-> <<"3", "2", "1">>, zip |-> <<"9", "4", "0", "4", "3">>]

\* the cards a caller passes to bind_card_sync: one with and one without a zip
PassedCards ==
    { [given |-> TRUE, number |-> <<"4", "1", "1", "1", "9", "8", "7", "6">>,
       exp_month |-> <<"3">>, exp_year |-> <<"2", "0", "2", "6">>,
       cvv |-> <<"7", "7", "7">>, zip |-> <<"1", "0", "0", "0", "1">>],
      [given |-> TRUE, number |-> <<"4", "0", "0", "0", "2", "2", "2", "2">>,
       exp_month |-> <<"2", "8">>, exp_year |-> <<"1", "1">>,
       cvv |-> <<"1", "2", "3">>, zip |-> <<>>] }

\* if card_info is None: card_info = DEFAULT_CARD
CardUsed == IF card_info.given THEN card_info ELSE DEFAULT_CARD

\* the remark of a browser window: email----password----backup----secret
Dashes == <<"-", "-", "-", "-">>
Remarks ==
    { <<>>,
      <<"e">>,
      <<"e">> \o Dashes \o <<"p">> \o Dashes \o <<"r">> \o Dashes,
      <<"e", " ">> \o Dashes \o <<"p">> \o Dashes \o <<"r">> \o Dashes \o <<"s">> }

\* parts[i].strip() if len(parts) > i else ''   (i counted from 1 here)
Field(ps, i) == IF Len(ps) >= i THEN Strip(ps[i]) ELSE <<>>

\* the account_info dict bind_card_sync builds from the remark
AccountFromRemark(remark) ==
    LET ps == SplitOn(remark, Dashes)
    IN  [given |-> TRUE, email |-> Field(ps, 1), secret |-> Field(ps, 4)]

\* the account_info test_bind_card_with_browser builds: None unless the
\* remark has at least 4 parts
AccountFromRemarkStrict(remark) ==
    IF Len(SplitOn(remark, Dashes)) >= 4 THEN AccountFromRemark(remark) ELSE NoAccount

\* the account_info a caller passes to test_bind_card_with_browser
GivenAccounts ==
    { [given |-> TRUE, email |-> <<"e">>, secret |-> <<>>],
      [given |-> TRUE, email |-> <<"e">>, secret |-> <<"s">>],
      [given |-> TRUE, email |-> <<>>, secret |-> <<>>] }

HasEmail == account_info.given /\ account_info.email # <<>>

IsSync == entry = "bind_card_sync"
IsTest == entry \in {"test_bind_card_with_browser", "__main__"}

RunInit ==
    /\ entry \in {"bind_card_sync", "test_bind_card_with_browser", "__main__"}
    /\ close_after \in (IF entry = "bind_card_sync" THEN BOOLEAN ELSE {FALSE})
    /\ card_info \in (IF entry = "bind_card_sync" THEN {NoCard} \cup PassedCards ELSE {NoCard})
    /\ account_info \in (IF entry = "test_bind_card_with_browser"
                         THEN {NoAccount} \cup GivenAccounts ELSE {NoAccount})
    /\ pc = (IF entry = "__main__" THEN "main" ELSE "get_info")
    /\ opened = FALSE /\ closeCalls = 0 /\ acts = <<>> /\ input_count = NotCounted
    /\ entered = <<>> /\ moveCalls = 0 /\ printed = {} /\ bindlog = <<>>
    /\ totp = "none" /\ marker = "none" /\ login = NoResult /\ abc = NoResult /\ pending = NoResult
    /\ manual = FALSE /\ card_frame = NoFrame /\ typed = <<>>
    /\ ret = NotReturned
    /\ ExpIdle /\ SplitIdle /\ ImpIdle /\ SelIdle /\ ZipIdle /\ ConcIdle /\ RtIdle

\* what a print of card data puts into the log output
Emit(what, text) == printed' = printed \cup {[what |-> what, text |-> text]}

\* __main__: print(f"测试卡信息: {DEFAULT_CARD}"), then the test entry point
\* with test_account = None
Main ==
    /\ pc = "main"
    /\ printed' = printed \cup { [what |-> "number", text |-> DEFAULT_CARD.number],
                                 [what |-> "expiry",
                                  text |-> DEFAULT_CARD.exp_month \o DEFAULT_CARD.exp_year],
                                 [what |-> "cvv", text |-> DEFAULT_CARD.cvv],
                                 [what |-> "zip", text |-> DEFAULT_CARD.zip] }
    /\ pc' = "get_info"
    /\ UNCHANGED <<entry, close_after, card_info, account_info, opened, closeCalls, acts,
                   input_count, entered, moveCalls, bindlog, totp, login, abc, pending, ret>>
    /\ UNCHANGED <<marker, manual, card_frame, typed, notRun>>

\* the entry point ends: its caller gets r
Leave(r) == ret' = r /\ pc' = "done"

(***************************************************************************)
(* bind_card_sync._run (lines 940-1009).                                   *)
(***************************************************************************)
\* browser_info = get_browser_info(browser_id) ... account_info = {...}
SyncGetInfo ==
    /\ IsSync /\ pc = "get_info"
    /\ \/ /\ Leave(Raised("get_browser_info"))
          /\ UNCHANGED account_info
       \/ /\ Leave(Returned(Result(FALSE, "browser_info_not_found")))
          /\ UNCHANGED account_info
       \/ \E remark \in Remarks :
             /\ account_info' = AccountFromRemark(remark)
             /\ pc' = "open"
             /\ UNCHANGED ret
    /\ UNCHANGED <<entry, close_after, card_info, opened, closeCalls, acts, input_count,
                   entered, moveCalls, printed, bindlog, totp, login, abc, pending>>
    /\ UNCHANGED <<marker, manual, card_frame, typed, notRun>>

\* the closeBrowser(browser_id) of the missing-endpoint exit (line 968)
CloseWhenNoEndpoint_Skipped == closeCalls' = closeCalls
CloseWhenNoEndpoint == closeCalls' = closeCalls + 1

\* res = openBrowser(browser_id) ... ws_endpoint = res.get('data', {}).get('ws')
SyncOpen ==
    /\ IsSync /\ pc = "open"
    /\ \/ /\ Leave(Raised("openBrowser"))
          /\ UNCHANGED <<opened, closeCalls>>
       \/ /\ Leave(Returned(Result(FALSE, "cannot_open_browser")))
          /\ UNCHANGED <<opened, closeCalls>>
       \/ /\ opened' = TRUE
          /\ CloseWhenNoEndpoint
          /\ \/ Leave(Returned(Result(FALSE, "no_ws_endpoint")))
             \/ Leave(Raised("closeBrowser"))
       \/ /\ opened' = TRUE
          /\ pc' = "attach"
          /\ UNCHANGED <<closeCalls, ret>>
    /\ UNCHANGED <<entry, close_after, card_info, account_info, acts, input_count,
                   entered, moveCalls, printed, bindlog, totp, login, abc, pending>>
    /\ UNCHANGED <<marker, manual, card_frame, typed, notRun>>

\* async with async_playwright() as p: browser = await p.chromium.connect_over_cdp(...)
\* context, page, await page.goto(...): an exception ends in "except Exception"
SyncAttach ==
    /\ IsSync /\ pc = "attach"
    /\ \/ /\ pending' = Result(FALSE, "bind_error")
          /\ pc' = "finally"
       \/ /\ pc' = "abc_start"
          /\ UNCHANGED pending
    /\ UNCHANGED <<entry, close_after, card_info, account_info, opened, closeCalls, acts,
                   input_count, entered, moveCalls, printed, bindlog, totp, login, abc, ret>>
    /\ UNCHANGED <<marker, manual, card_frame, typed, notRun>>

\* card_last4 = card_info.get('number', '')[-4:] if card_info else 'N/A'
NotAvailable == <<"N", "/", "A">>
CardLast4 == IF card_info.given THEN LastN(card_info.number, 4) ELSE NotAvailable

\* if success: append the record to the bind record file; return success, message
SyncRecord_OnSuccess == abc.success

SyncRecord ==
    /\ IsSync /\ pc = "abc_done"
    /\ IF SyncRecord_OnSuccess
       THEN \/ /\ bindlog' = Append(bindlog, [email |-> account_info.email, last4 |-> CardLast4])
               /\ pending' = abc
            \/ /\ pending' = Result(FALSE, "bind_error")      \* the write raises
               /\ UNCHANGED bindlog
       ELSE /\ pending' = abc
            /\ UNCHANGED bindlog
    /\ pc' = "finally"
    /\ UNCHANGED <<entry, close_after, card_info, account_info, opened, closeCalls, acts,
                   input_count, entered, moveCalls, printed, totp, login, abc, ret>>
    /\ UNCHANGED <<marker, manual, card_frame, typed, notRun>>

\* finally: if close_after: closeBrowser(browser_id)
CloseInFinally_Never == FALSE
CloseInFinally == close_after

SyncFinally ==
    /\ IsSync /\ pc = "finally"
    /\ IF CloseInFinally
       THEN /\ closeCalls' = closeCalls + 1
            /\ \/ Leave(Returned(pending))
               \/ Leave(Raised("closeBrowser"))
       ELSE /\ Leave(Returned(pending))
            /\ UNCHANGED closeCalls
    /\ UNCHANGED <<entry, close_after, card_info, account_info, opened, acts, input_count,
                   entered, moveCalls, printed, bindlog, totp, login, abc, pending>>
    /\ UNCHANGED <<marker, manual, card_frame, typed, notRun>>

(***************************************************************************)
(* test_bind_card_with_browser (lines 835-914).                            *)
(***************************************************************************)
\* if not account_info: target_browser = get_browser_info(browser_id) ...
TestGetInfo ==
    /\ IsTest /\ pc = "get_info"
    /\ IF account_info.given
       THEN pc' = "open" /\ UNCHANGED <<account_info, ret>>
       ELSE \/ /\ Leave(Raised("get_browser_info"))
               /\ UNCHANGED account_info
            \/ /\ pc' = "open"                       \* no browser info
               /\ UNCHANGED <<account_info, ret>>
            \/ \E remark \in Remarks :
                  /\ account_info' = AccountFromRemarkStrict(remark)
                  /\ pc' = "open"
                  /\ UNCHANGED ret
    /\ UNCHANGED <<entry, close_after, card_info, opened, closeCalls, acts, input_count,
                   entered, moveCalls, printed, bindlog, totp, login, abc, pending>>
    /\ UNCHANGED <<marker, manual, card_frame, typed, notRun>>

\* result = openBrowser(browser_id) ... ws_endpoint = result['data']['ws']
TestOpen ==
    /\ IsTest /\ pc = "open"
    /\ \/ /\ Leave(Raised("openBrowser"))
          /\ UNCHANGED opened
       \/ /\ Leave(Returned(Result(FALSE, "open_browser_failed")))
          /\ UNCHANGED opened
       \/ /\ opened' = TRUE
          /\ Leave(Raised("KeyError"))               \* no 'ws' in the answer
       \/ /\ opened' = TRUE
          /\ pc' = "attach"
          /\ UNCHANGED ret
    /\ UNCHANGED <<entry, close_after, card_info, account_info, closeCalls, acts,
                   input_count, entered, moveCalls, printed, bindlog, totp, login, abc, pending>>
    /\ UNCHANGED <<marker, manual, card_frame, typed, notRun>>

\* connect_over_cdp, context, page, goto: except Exception -> return False, str(e)
TestAttach ==
    /\ IsTest /\ pc = "attach"
    /\ \/ Leave(Returned(Result(FALSE, "exception_text")))
       \/ pc' = "abc_start" /\ UNCHANGED ret
    /\ UNCHANGED <<entry, close_after, card_info, account_info, opened, closeCalls, acts,
                   input_count, entered, moveCalls, printed, bindlog, totp, login, abc, pending>>
    /\ UNCHANGED <<marker, manual, card_frame, typed, notRun>>

\* success, message = await auto_bind_card(...); return True, message
\* (finally: the closeBrowser call is commented out)
TestReturn ==
    /\ IsTest /\ pc = "abc_done"
    /\ Leave(Returned(Result(TRUE, abc.message)))
    /\ UNCHANGED <<entry, close_after, card_info, account_info, opened, closeCalls, acts,
                   input_count, entered, moveCalls, printed, bindlog, totp, login, abc, pending>>
    /\ UNCHANGED <<marker, manual, card_frame, typed, notRun>>


(***************************************************************************)
(* check_and_login (lines 58-140).                                         *)
(***************************************************************************)
loginFrame == <<entry, close_after, card_info, account_info, opened, closeCalls, acts,
                input_count, entered, moveCalls, printed, bindlog, totp, abc, pending, ret>>

LoginReturn(r) == login' = r /\ pc' = "after_login"

\* email_input = await page.wait_for_selector('input[type="email"]', timeout=5000)
\* a timeout lands in the bare "except:" of line 134
LoginDetect ==
    /\ pc = "abc_start"
    /\ \/ LoginReturn(Result(TRUE, "already_logged_in"))
       \/ IF ~account_info.given
          THEN LoginReturn(Result(FALSE, "need_login_no_account"))
          ELSE pc' = "login_credentials" /\ UNCHANGED login
    /\ UNCHANGED loginFrame
    /\ UNCHANGED <<marker, manual, card_frame, typed, notRun>>

\* fill the email, click next, wait for the password input, fill it, click
\* next: any exception lands in the bare "except:" of line 134
LoginCredentials ==
    /\ pc = "login_credentials"
    /\ \/ LoginReturn(Result(TRUE, "already_logged_in"))
       \/ pc' = "login_totp" /\ UNCHANGED login
    /\ UNCHANGED loginFrame
    /\ UNCHANGED <<marker, manual, card_frame, typed, notRun>>

\* the 2FA step (lines 96-119): no prompt in time; a prompt answered with the
\* TOTP code when a secret is stored (an exception on the way is printed and
\* passed over); else a prompt handed to handle_recovery_email_challenge,
\* which resolves it, does not, or raises (printed and passed over)
LoginTotp ==
    /\ pc = "login_totp"
    /\ \E met \in {"no_prompt", "code_typed", "code_failed",
                   "handled", "not_handled", "handler_raised"} :
          /\ met \in {"code_typed", "code_failed"} => account_info.secret # <<>>
          /\ met \in {"handled", "not_handled", "handler_raised"} => account_info.secret = <<>>
          /\ totp' = (IF met = "not_handled" THEN met ELSE "passed")
          /\ IF met = "not_handled"
             THEN LoginReturn(Result(FALSE, "need_2fa_no_secret"))
             ELSE pc' = "login_recovery" /\ UNCHANGED login
    /\ UNCHANGED <<entry, close_after, card_info, account_info, opened, closeCalls, acts,
                   input_count, entered, moveCalls, printed, bindlog, abc, pending, ret>>
    /\ UNCHANGED <<marker, manual, card_frame, typed, notRun>>

\* the recovery-email page (lines 121-133)
\* if await detect_manual_verification(page): return False, "需要人工完成验证码"
ManualVerification_PassedOver == LoginReturn(Result(TRUE, "login_ok"))
ManualVerification == LoginReturn(Result(FALSE, "need_manual_verification"))

LoginRecovery ==
    /\ pc = "login_recovery"
    /\ \/ /\ manual' = TRUE                       \* the marker is detected
          /\ ManualVerification
       \/ /\ LoginReturn(Result(TRUE, "login_ok"))  \* no marker, or an exception passed over
          /\ UNCHANGED manual
    /\ UNCHANGED loginFrame
    /\ UNCHANGED <<marker, card_frame, typed, notRun>>

(***************************************************************************)
(* auto_bind_card (lines 142-832).                                         *)
(***************************************************************************)
abcFrame == <<entry, close_after, card_info, account_info, opened, closeCalls,
              bindlog, totp, login, pending, ret>>

AbcReturn(r) == abc' = r /\ pc' = "abc_done"
Did(a) == acts' = Append(acts, a)

\* f"登录失败: {login_msg}"
LoginFailedMessage(m) ==
    CASE m = "need_login_no_account" -> "login_failed: need_login_no_account"
      [] m = "need_2fa_no_secret" -> "login_failed: need_2fa_no_secret"
      [] m = "need_manual_verification" -> "login_failed: need_manual_verification"
      [] OTHER -> "login_failed"

\* if account_info and account_info.get('email'): AccountManager.move_to_subscribed(line)
MoveToSubscribed_Never == UNCHANGED moveCalls
MoveToSubscribed ==
    IF HasEmail THEN moveCalls' = moveCalls + 1 ELSE UNCHANGED moveCalls

\* lines 159-167: the login result, then the first screenshot
AfterLogin ==
    /\ pc = "after_login"
    /\ IF ~login.success
       THEN AbcReturn(Result(FALSE, LoginFailedMessage(login.message)))
       ELSE \/ AbcReturn(Result(FALSE, "bind_error"))    \* the screenshot raises
            \/ pc' = "cta" /\ UNCHANGED abc
    /\ UNCHANGED <<acts, input_count, entered, moveCalls, printed>>
    /\ UNCHANGED abcFrame
    /\ UNCHANGED <<marker, manual, card_frame, typed, notRun>>

\* lines 173-207: the primary CTA, clicked when a candidate is visible
ClickCta ==
    /\ pc = "cta"
    /\ \/ Did("cta")
       \/ UNCHANGED acts
    /\ pc' = "subscribe_confirm"
    /\ UNCHANGED <<input_count, entered, moveCalls, printed, abc>>
    /\ UNCHANGED abcFrame
    /\ UNCHANGED <<marker, manual, card_frame, typed, notRun>>

\* lines 209-266: the subscribe confirmation over the page and its frames;
\* an exception of the screenshots is printed and passed over
ClickSubscribeConfirm ==
    /\ pc = "subscribe_confirm"
    /\ \/ Did("subscribe_confirm")
       \/ UNCHANGED acts
    /\ pc' = "precheck"
    /\ UNCHANGED <<input_count, entered, moveCalls, printed, abc>>
    /\ UNCHANGED abcFrame
    /\ UNCHANGED <<marker, manual, card_frame, typed, notRun>>

\* lines 267-338: is there a Subscribe affordance already (iframe, then page)?
\* if so click it (force, then through its wrapper) and take a screenshot
PreCheck ==
    /\ pc = "precheck"
    /\ \/ /\ pc' = "add_card"                 \* none found, or an exception
          /\ UNCHANGED acts
       \/ /\ \/ Did("subscribe_existing")
             \/ UNCHANGED acts                \* both clicks raised
          /\ \/ pc' = "precheck_verify"
             \/ pc' = "add_card"              \* the screenshot raises (line 491)
    /\ UNCHANGED <<input_count, entered, moveCalls, printed, abc>>
    /\ UNCHANGED abcFrame
    /\ UNCHANGED <<marker, manual, card_frame, typed, notRun>>

\* lines 340-373: a "Subscribed" marker after the click
PreVerifySubscribed ==
    /\ pc = "precheck_verify"
    /\ MoveToSubscribed
    /\ \/ AbcReturn(Result(TRUE, "already_bound_subscribed"))
       \/ /\ HasEmail                           \* move_to_subscribed raises (line 485)
          /\ AbcReturn(Result(TRUE, "already_bound"))
    /\ UNCHANGED <<acts, input_count, entered, printed>>
    /\ UNCHANGED abcFrame
    /\ marker' = "subscribed"
    /\ UNCHANGED <<manual, card_frame, typed, notRun>>

\* lines 481-483: neither a "Subscribed" nor an "Error" marker
PreVerifyNeither ==
    /\ pc = "precheck_verify"
    /\ AbcReturn(Result(TRUE, "already_bound"))
    /\ UNCHANGED <<acts, input_count, entered, moveCalls, printed>>
    /\ UNCHANGED abcFrame
    /\ marker' = "neither"
    /\ UNCHANGED <<manual, card_frame, typed, notRun>>

\* lines 375-480: an "Error" marker: dismiss the dialog, click the CTA again,
\* click the existing card in the iframe; each click only when its element
\* is found, and the run goes on to the card entry
RECURSIVE Clicks(_, _)
Clicks(names, found) ==
    IF names = <<>> THEN <<>>
    ELSE (IF Head(found) THEN <<Head(names)>> ELSE <<>>) \o Clicks(Tail(names), Tail(found))

\* line 477: no return after the replacement steps, the card entry follows
AfterReplacement_Return == AbcReturn(Result(FALSE, "card_declined"))
AfterReplacement == pc' = "add_card" /\ UNCHANGED abc

PreVerifyError ==
    /\ pc = "precheck_verify"
    /\ \E gotit \in BOOLEAN, cta \in BOOLEAN, card \in BOOLEAN :
          acts' = acts \o Clicks(<<"got_it", "cta_again", "existing_card">>, <<gotit, cta, card>>)
    /\ AfterReplacement
    /\ UNCHANGED <<input_count, entered, moveCalls, printed>>
    /\ UNCHANGED abcFrame
    /\ marker' = "error"
    /\ UNCHANGED <<manual, card_frame, typed, notRun>>


\* lines 497-553: the payment iframe, "Add card" clicked when found, a
\* screenshot; an exception takes the error screenshot and ends the run
AddCard ==
    /\ pc = "add_card"
    /\ \/ Did("add_card")
       \/ UNCHANGED acts
    /\ \/ pc' = "find_frame" /\ UNCHANGED abc
       \/ AbcReturn(Result(FALSE, "add_card_failed"))
       \/ AbcReturn(Result(FALSE, "bind_error"))     \* the error screenshot raises too
    /\ UNCHANGED <<input_count, entered, moveCalls, printed>>
    /\ UNCHANGED abcFrame
    /\ UNCHANGED <<marker, manual, card_frame, typed, notRun>>

\* the URLs of the frames attached to the page: the main page, a frame of
\* payments.google.com, the instrumentmanager frame of payments.google.com
FrameUrls == {FrameUrl(FALSE, FALSE), FrameUrl(FALSE, TRUE), FrameUrl(TRUE, TRUE)}
MaxFrames == 2
FrameLists == SeqsUpTo(FrameUrls, MaxFrames) \ {<<>>}

\* if 'instrumentmanager' in frame.url
FirstScanMatch(url) == url.instrumentmanager
\* if 'instrumentmanager' in frame.url or 'payments.google.com' in frame.url
RetryMatch(url) == url.instrumentmanager \/ url.payments

\* for frame in page.frames: if <match>: card_form_frame = frame; break
FrameMatch(url, retry) == IF retry THEN RetryMatch(url) ELSE FirstScanMatch(url)
FrameMatches(frames, retry) == \E i \in 1..Len(frames) : FrameMatch(frames[i], retry)
FirstFrame(frames, retry) ==
    frames[CHOOSE i \in 1..Len(frames) :
              FrameMatch(frames[i], retry) /\ \A j \in 1..(i - 1) : ~FrameMatch(frames[j], retry)]

\* lines 555-581: the card form frame among page.frames, one retry after 3 s
FindCardFrame ==
    /\ pc = "find_frame"
    /\ \E first \in FrameLists :
          IF FrameMatches(first, FALSE)
          THEN /\ card_frame' = [scans |-> 1, found |-> TRUE,
                                 url |-> FirstFrame(first, FALSE)]
               /\ pc' = "card_number" /\ UNCHANGED abc
          ELSE \E again \in FrameLists :
                  IF FrameMatches(again, TRUE)
                  THEN /\ card_frame' = [scans |-> 2, found |-> TRUE,
                                         url |-> FirstFrame(again, TRUE)]
                       /\ pc' = "card_number" /\ UNCHANGED abc
                  ELSE /\ card_frame' = [scans |-> 2, found |-> FALSE,
                                         url |-> FrameUrl(FALSE, FALSE)]
                       /\ AbcReturn(Result(FALSE, "card_form_frame_not_found"))
    /\ UNCHANGED <<acts, input_count, entered, moveCalls, printed>>
    /\ UNCHANGED abcFrame
    /\ UNCHANGED <<marker, manual, typed, notRun>>

MaxInputs == 4

\* if input_count < 3
TooFewInputs_Two(n) == n < 2
TooFewInputs(n) == n < 3

\* print(f"\n填写卡号: {card_info['number']}")
LogCardNumber == Emit("number", CardUsed.number)

\* a fill that returned: await all_inputs.nth(i).click(); await ....fill(text)
Fill(i, text) == typed' = Append(typed, [input |-> i, text |-> text])

\* lines 583-612: the inputs of the frame are counted, input 0 gets the number
FillNumber ==
    /\ pc = "card_number"
    /\ LogCardNumber
    /\ \/ /\ AbcReturn(Result(FALSE, "fill_number_failed"))   \* counting raises
          /\ UNCHANGED <<acts, input_count, entered, typed>>
       \/ \E n \in 0..MaxInputs :
             /\ input_count' = n
             /\ IF TooFewInputs(n)
                THEN /\ AbcReturn(Result(FALSE, "too_few_inputs"))
                     /\ UNCHANGED <<acts, entered, typed>>
                ELSE \/ /\ Did("fill_number")
                        /\ Fill(0, CardUsed.number)
                        /\ entered' = CardUsed.number
                        /\ pc' = "card_expiry"
                        /\ UNCHANGED abc
                     \/ /\ AbcReturn(Result(FALSE, "fill_number_failed"))
                        /\ UNCHANGED <<acts, entered, typed>>
    /\ UNCHANGED moveCalls
    /\ UNCHANGED abcFrame
    /\ UNCHANGED <<marker, manual, card_frame, notRun>>

\* lines 614-631: print(f"填写过期日期: {exp_month}/{exp_year}"), input 1
\* exp_month, exp_year = _normalize_exp_parts(card_info.get('exp_month', ''), ...)
ExpParts == _normalize_exp_parts(CardUsed.exp_month, CardUsed.exp_year)

\* exp_value = f"{exp_month}{exp_year}"
ExpValue_YearFirst(mm, yy) == yy \o mm
ExpValue(mm, yy) == mm \o yy

FillExpiry ==
    /\ pc = "card_expiry"
    /\ Emit("expiry", ExpParts[1] \o <<"/">> \o ExpParts[2])
    /\ \/ /\ Did("fill_expiry") /\ Fill(1, ExpValue(ExpParts[1], ExpParts[2]))
          /\ pc' = "card_cvv" /\ UNCHANGED abc
       \/ AbcReturn(Result(FALSE, "fill_expiry_failed")) /\ UNCHANGED <<acts, typed>>
    /\ UNCHANGED <<input_count, entered, moveCalls>>
    /\ UNCHANGED abcFrame
    /\ UNCHANGED <<marker, manual, card_frame, notRun>>

\* lines 633-645: print(f"填写 CVV: {card_info['cvv']}"), input 2
FillCvv ==
    /\ pc = "card_cvv"
    /\ Emit("cvv", CardUsed.cvv)
    /\ \/ Did("fill_cvv") /\ Fill(2, CardUsed.cvv) /\ pc' = "card_zip" /\ UNCHANGED abc
       \/ AbcReturn(Result(FALSE, "fill_cvv_failed")) /\ UNCHANGED <<acts, typed>>
    /\ UNCHANGED <<input_count, entered, moveCalls>>
    /\ UNCHANGED abcFrame
    /\ UNCHANGED <<marker, manual, card_frame, notRun>>

\* lines 647-664: the zip goes into an input from index 3 on (the last one
\* at the latest); an exception is printed and passed over
FillZip ==
    /\ pc = "card_zip"
    /\ IF CardUsed.zip # <<>>
       THEN /\ Emit("zip", CardUsed.zip)
            /\ \/ \E i \in 3..(input_count - 1) : Did("fill_zip") /\ Fill(i, CardUsed.zip)
               \/ UNCHANGED <<acts, typed>>
       ELSE UNCHANGED <<acts, printed, typed>>
    /\ pc' = "save"
    /\ UNCHANGED <<input_count, entered, moveCalls, abc>>
    /\ UNCHANGED abcFrame
    /\ UNCHANGED <<marker, manual, card_frame, notRun>>

\* lines 666-697: the Save button
ClickSave ==
    /\ pc = "save"
    /\ \/ AbcReturn(Result(FALSE, "save_not_found")) /\ UNCHANGED acts
       \/ AbcReturn(Result(FALSE, "save_click_failed")) /\ UNCHANGED acts
       \/ Did("save") /\ pc' = "before_subscribe" /\ UNCHANGED abc
    /\ UNCHANGED <<input_count, entered, moveCalls, printed>>
    /\ UNCHANGED abcFrame
    /\ UNCHANGED <<marker, manual, card_frame, typed, notRun>>

\* lines 699-703: the screenshot before the subscribe step (outer try only)
BeforeSubscribe ==
    /\ pc = "before_subscribe"
    /\ \/ AbcReturn(Result(FALSE, "bind_error"))
       \/ pc' = "final_subscribe" /\ UNCHANGED abc
    /\ UNCHANGED <<acts, input_count, entered, moveCalls, printed>>
    /\ UNCHANGED abcFrame
    /\ UNCHANGED <<marker, manual, card_frame, typed, notRun>>

\* lines 705-774, 816-826: the Subscribe button (iframe, then page) and its click
FinalSubscribe ==
    /\ pc = "final_subscribe"
    /\ \/ AbcReturn(Result(TRUE, "bind_ok")) /\ UNCHANGED acts          \* no button
       \/ AbcReturn(Result(TRUE, "bind_done")) /\ UNCHANGED acts        \* the click raises
       \/ Did("subscribe_final") /\ AbcReturn(Result(TRUE, "bind_done")) \* the screenshot raises
       \/ Did("subscribe_final") /\ pc' = "final_verify" /\ UNCHANGED abc
    /\ UNCHANGED <<input_count, entered, moveCalls, printed>>
    /\ UNCHANGED abcFrame
    /\ UNCHANGED <<marker, manual, card_frame, typed, notRun>>

\* lines 776-815: the "Subscribed" marker in the iframe, found or not; when the
\* verification raises before the account is moved, "except Exception" of
\* line 813 returns the same success
FinalVerify ==
    /\ pc = "final_verify"
    /\ \/ MoveToSubscribed /\ AbcReturn(Result(TRUE, "bind_subscribed_confirmed"))
       \/ MoveToSubscribed /\ AbcReturn(Result(TRUE, "bind_subscribed"))
       \/ UNCHANGED moveCalls /\ AbcReturn(Result(TRUE, "bind_subscribed"))
    /\ UNCHANGED <<acts, input_count, entered, printed>>
    /\ UNCHANGED abcFrame
    /\ UNCHANGED <<marker, manual, card_frame, typed, notRun>>

Next ==
    \/ Main
    \/ SyncGetInfo \/ SyncOpen \/ SyncAttach \/ SyncRecord \/ SyncFinally
    \/ TestGetInfo \/ TestOpen \/ TestAttach \/ TestReturn
    \/ LoginDetect \/ LoginCredentials \/ LoginTotp \/ LoginRecovery
    \/ AfterLogin \/ ClickCta \/ ClickSubscribeConfirm
    \/ PreCheck \/ PreVerifySubscribed \/ PreVerifyNeither \/ PreVerifyError
    \/ AddCard \/ FindCardFrame
    \/ FillNumber \/ FillExpiry \/ FillCvv \/ FillZip \/ ClickSave
    \/ BeforeSubscribe \/ FinalSubscribe \/ FinalVerify

Spec == RunInit /\ [][Next]_vars


(***************************************************************************)
(* SelSpec: the two selector-fallback loops of the funnel that require     *)
(* visibility: the primary CTA over the page (lines 194-207) and the       *)
(* subscribe confirmation over the page and its frames (lines 234-266).    *)
(* What a candidate comes to is the page's answer at the time it is tried. *)
(***************************************************************************)
\* the length of the candidate lists of the model (8 and 20 in the code)
MaxCandidates == 3

\* a candidate at the time it is tried: does scope.locator(selector).first
\* have a match, is it visible, and which call raises, if any
Candidate(m, v, x) == [match |-> m, visible |-> v, raises |-> x]
SelCandidates ==
    { Candidate(FALSE, FALSE, "none"),    \* count() == 0
      Candidate(TRUE, FALSE, "none"),     \* a match that is not visible
      Candidate(TRUE, TRUE, "none"),      \* a visible match, the click returns
      Candidate(TRUE, TRUE, "click"),     \* a visible match, the click raises
      Candidate(FALSE, FALSE, "query") }  \* count() or is_visible() raises

\* if await element.count() > 0 and await element.is_visible()
Qualifies_NoVisibility(c) == c.match
Qualifies(c) == c.match /\ c.visible

\* scopes = [page] + page.frames for the subscribe confirmation (the main
\* frame is one of page.frames), the page alone for the CTA
SelScopeCount(kind) == IF kind = "cta" THEN 1 ELSE 2

SelInit ==
    /\ sel_kind \in {"cta", "subscribe"}
    /\ sel_scopes = SelScopeCount(sel_kind)
    /\ sel_scope = 1 /\ sel_idx = 1
    /\ sel_seen = <<>> /\ sel_clicked = <<>>
    /\ sel_pc = "loop"
    /\ ExpIdle /\ SplitIdle /\ RunIdle /\ ImpIdle /\ ZipIdle /\ ConcIdle /\ RtIdle

\* one pass of the loop body: try: element = ...; if <qualifies>: click;
\* break   except: continue
SelTry ==
    /\ sel_pc = "loop"
    /\ \E c \in SelCandidates :
          /\ sel_seen' = Append(sel_seen, [scope |-> sel_scope, idx |-> sel_idx, cand |-> c])
          /\ IF c.raises # "query" /\ Qualifies(c) /\ c.raises # "click"
             THEN /\ sel_clicked' = Append(sel_clicked, [scope |-> sel_scope, idx |-> sel_idx])
                  /\ sel_pc' = "after_loop"             \* break (out of both loops)
                  /\ UNCHANGED <<sel_scope, sel_idx>>
             ELSE /\ UNCHANGED sel_clicked
                  /\ IF sel_idx < MaxCandidates
                     THEN sel_idx' = sel_idx + 1 /\ UNCHANGED <<sel_scope, sel_pc>>
                     ELSE IF sel_scope < sel_scopes
                     THEN sel_scope' = sel_scope + 1 /\ sel_idx' = 1 /\ UNCHANGED sel_pc
                     ELSE sel_pc' = "after_loop" /\ UNCHANGED <<sel_scope, sel_idx>>
    /\ UNCHANGED <<sel_kind, sel_scopes, notSel>>

\* after the loop: a print for the CTA; for the subscribe confirmation the
\* waits and the screenshots, whose exception is printed at line 264; the
\* flow goes on with the next step either way
SelAfterLoop ==
    /\ sel_pc = "after_loop"
    /\ sel_pc' = "next_step"
    /\ UNCHANGED <<sel_kind, sel_scopes, sel_scope, sel_idx, sel_seen, sel_clicked, notSel>>

SelNext == SelTry \/ SelAfterLoop
SelSpec == SelInit /\ [][SelNext]_vars

(***************************************************************************)
(* ZipSpec: the postal code step of the card entry (lines 647-664), for a  *)
(* card form frame with at least 3 inputs.  Inputs are counted from 0, as  *)
(* in the code.                                                            *)
(***************************************************************************)
MaxZipInputs == 6

\* await zip_input.get_attribute('type'); "none" when there is no attribute
ZipTypes == {"tel", "text", "none"}

\* if input_type == 'tel' or i == input_count - 1
IsZipInput_TelOnly(type, i, n) == type = "tel"
IsZipInput(type, i, n) == type = "tel" \/ i = n - 1

ZipInit ==
    /\ zip_code \in {<<>>, <<"9", "4", "0", "4", "3">>}
    /\ zip_count \in 3..MaxZipInputs
    /\ zip_types \in [3..(zip_count - 1) -> ZipTypes]
    /\ zip_i = 3
    /\ zip_filled = <<>>
    /\ zip_failed = FALSE
    /\ zip_pc = "start"
    /\ ExpIdle /\ SplitIdle /\ RunIdle /\ ImpIdle /\ SelIdle /\ ConcIdle /\ RtIdle

\* zip_code = card_info.get('zip', ''); if zip_code: ... for i in range(3, input_count)
ZipStart ==
    /\ zip_pc = "start"
    /\ zip_pc' = (IF zip_code # <<>> THEN "loop" ELSE "save")
    /\ UNCHANGED <<zip_code, zip_count, zip_types, zip_i, zip_filled, zip_failed, notZip>>

\* one pass of the loop; an exception of get_attribute, click or fill ends
\* in the except of line 663, after which the Save step follows
ZipTry ==
    /\ zip_pc = "loop"
    /\ IF zip_i >= zip_count
       THEN /\ zip_pc' = "save"
            /\ UNCHANGED <<zip_i, zip_filled, zip_failed>>
       ELSE \/ /\ zip_failed' = TRUE /\ zip_pc' = "save"      \* get_attribute raises
               /\ UNCHANGED <<zip_i, zip_filled>>
            \/ IF IsZipInput(zip_types[zip_i], zip_i, zip_count)
               THEN \/ /\ zip_filled' = Append(zip_filled, zip_i)   \* click, fill, break
                       /\ zip_pc' = "save"
                       /\ UNCHANGED <<zip_i, zip_failed>>
                    \/ /\ zip_failed' = TRUE /\ zip_pc' = "save"   \* click or fill raises
                       /\ UNCHANGED <<zip_i, zip_filled>>
               ELSE /\ zip_i' = zip_i + 1
                    /\ UNCHANGED <<zip_filled, zip_failed, zip_pc>>
    /\ UNCHANGED <<zip_code, zip_count, zip_types, notZip>>

ZipNext == ZipStart \/ ZipTry
ZipSpec == ZipInit /\ [][ZipNext]_vars

(***************************************************************************)
(* ConcSpec: two runs of bind_card_sync for different accounts at the same *)
(* time, seen through the files they write.  The screenshot paths are      *)
(* relative to the working directory, the bind record file lies next to    *)
(* the module; neither depends on the account or the browser.              *)
(***************************************************************************)
Runs == {1, 2}

\* the files a run that binds a card writes, in order: the screenshots of
\* lines 166, 261, 552, 702 and 773, then the bind record file of line 992
\* (named 已绑卡号.txt in the code)
RunFiles ==
    <<"step1_initial.png", "step2_after_get_offer.png", "step3_card_form_in_iframe.png",
      "step7_before_subscribe.png", "step8_after_subscribe.png", "bind_record.txt">>

FileNames == {RunFiles[k] : k \in 1..Len(RunFiles)}

\* a run ends after any number of these writes (it fails on the way or
\* binds the card)
ConcInit ==
    /\ run_pc = [r \in Runs |-> 0]
    /\ run_len \in [Runs -> 0..Len(RunFiles)]
    /\ files = [f \in FileNames |-> <<>>]
    /\ ExpIdle /\ SplitIdle /\ RunIdle /\ ImpIdle /\ SelIdle /\ ZipIdle /\ RtIdle

\* await page.screenshot(path=...) or open(..., 'a') ... f.write(...)
WriteFile(r) ==
    /\ run_pc[r] < run_len[r]
    /\ files' = [files EXCEPT ![RunFiles[run_pc[r] + 1]] = Append(@, r)]
    /\ run_pc' = [run_pc EXCEPT ![r] = @ + 1]
    /\ UNCHANGED <<run_len, notConc>>

ConcNext == \E r \in Runs : WriteFile(r)
ConcSpec == ConcInit /\ [][ConcNext]_vars

(***************************************************************************)
(* Properties of the expiry handling.                                      *)
(***************************************************************************)
IsDigitString(s) == s # <<>> /\ \A i \in 1..Len(s) : s[i] \in AsciiDigits

\* the three examples of the specification
C8_ExamplesHold ==
    /\ _normalize_exp_parts(<<"2", "5">>, <<"0", "3">>) = <<<<"0", "3">>, <<"2", "5">>>>
    /\ _normalize_exp_parts(<<"0", "3">>, <<"2", "5">>) = <<<<"0", "3">>, <<"2", "5">>>>
    /\ _normalize_exp_parts(<<"3">>, <<"2", "0", "2", "6">>) = <<<<"0", "3">>, <<"2", "6">>>>

C9_TypedExpiryIsMMYY ==
    (epc = "filled" /\ IsDigitString(exp_month) /\ IsDigitString(exp_year)) =>
        /\ Len(exp_value) = 4
        /\ IsDigitString(exp_value)
        /\ IntOf(SubSeq(exp_value, 1, 2)) <= 12

\* C25: _normalize_exp_parts is idempotent: applied to its own result it
\* returns that result unchanged, so a pair that was normalized or swapped is
\* never swapped back or padded again.
C25_NormalizeIdempotent ==
    epc # "start" =>
        _normalize_exp_parts(exp_parts[1], exp_parts[2]) = exp_parts

\* C25 witness: the pair (20, 1) was swapped and padded to (01, 20), and
\* normalizing (01, 20) gives (01, 20) again.
C25_Witness ==
    /\ epc = "normalized"
    /\ exp_month = <<"2", "0">> /\ exp_year = <<"1">>
    /\ exp_parts = << <<"0", "1">>, <<"2", "0">> >>
    /\ _normalize_exp_parts(exp_parts[1], exp_parts[2]) = exp_parts

(***************************************************************************)
(* Properties of the account-line splitting.                               *)
(***************************************************************************)
\* the priority list as the specification states it
C10_Priority ==
    << <<"-", "-", "-", "-">>, <<"-", "-", "-">>, <<"|">>, <<",">>, <<";">>, <<"\t">> >>

\* the separator the line is to be split on: the caller's when it occurs in
\* the line, else the first of the priority list that occurs, else none
\* (<<>>, whitespace splitting)
C10_Chosen(s, sep) ==
    IF sep # <<>> /\ Occurs(sep, s) THEN sep
    ELSE IF \E k \in 1..Len(C10_Priority) : Occurs(C10_Priority[k], s)
         THEN C10_Priority[CHOOSE k \in 1..Len(C10_Priority) :
                              /\ Occurs(C10_Priority[k], s)
                              /\ \A j \in 1..(k - 1) : ~Occurs(C10_Priority[j], s)]
         ELSE <<>>

\* the number of maximal runs of non-whitespace characters of s
C10_Tokens(s) ==
    Cardinality({i \in 1..Len(s) : s[i] \notin Whitespace /\ (i = 1 \/ s[i - 1] \in Whitespace)})

C10_Example1 ==
    <<"a", "@", "x", ".", "c", "o", "m", "-", "-", "-", "-", "p", "w", "-", "-", "-", "-",
      "r", "e", "c", "-", "-", "-", "-", "s", "e", "c", "r", "e", "t">>
C10_Example2 == <<"a", "@", "x", ".", "c", "o", "m", ",", "p", "w">>
C10_Example3 == <<"a", "@", "x", " ", " ", "p", "w", " ", "r", "e", "c">>

\* the three examples of the specification: 4 parts, 2 parts, one part per token
C10_ExamplesHold ==
    /\ _split_account_line(C10_Example1, <<"-", "-", "-", "-">>) =
           << <<"a", "@", "x", ".", "c", "o", "m">>, <<"p", "w">>, <<"r", "e", "c">>,
              <<"s", "e", "c", "r", "e", "t">> >>
    /\ _split_account_line(C10_Example2, <<"-", "-", "-", "-">>) =
           << <<"a", "@", "x", ".", "c", "o", "m">>, <<"p", "w">> >>
    /\ _split_account_line(C10_Example3, <<"-", "-", "-", "-">>) =
           << <<"a", "@", "x">>, <<"p", "w">>, <<"r", "e", "c">> >>

\* C10: _split_account_line splits on the caller's separator when it occurs
\* in the line, otherwise on the first separator of the priority list that
\* occurs, otherwise on whitespace; every returned part is trimmed; the
\* three examples yield 4 parts, 2 parts and one part per token.
C10_SplitAccountLine ==
    /\ C10_ExamplesHold
    /\ spc = "split" =>
         LET chosen == C10_Chosen(line, separator)
         IN  /\ \A k \in 1..Len(parts) :
                   /\ parts[k] # <<>>
                   /\ parts[k][1] \notin Whitespace
                   /\ parts[k][Len(parts[k])] \notin Whitespace
             /\ chosen # <<>> =>
                   /\ parts = StripNonEmpty(SplitOn(line, chosen))
                   /\ \A k \in 1..Len(parts) : ~Occurs(chosen, parts[k])
             /\ chosen = <<>> =>
                   /\ Len(parts) = C10_Tokens(line)
                   /\ \A k \in 1..Len(parts) :
                         \A i \in 1..Len(parts[k]) : parts[k][i] \notin Whitespace

\* C10 witness: the caller's comma occurs in a line that also holds the
\* higher-priority '---', and the line was split on the comma into 2 parts.
C10_Witness ==
    /\ spc = "split"
    /\ separator = <<",">>
    /\ Occurs(<<"-", "-", "-">>, line) /\ Occurs(<<",">>, line)
    /\ Len(parts) = 2
    /\ parts[1] = <<"-", "-", "-">>

(***************************************************************************)
(* Properties of the import.                                               *)
(***************************************************************************)
\* the emails of the account lines of a request: the first part of every
\* line that is neither blank nor a comment
C11_Emails(req) ==
    LET lines == ContentLines(req.content)
    IN  { Strip(_split_account_line(Strip(lines[k]), req.separator)[1]) :
            k \in { j \in 1..Len(lines) :
                      /\ Strip(lines[j]) # <<>>
                      /\ Strip(lines[j])[1] # "#"
                      /\ _split_account_line(Strip(lines[j]), req.separator) # <<>> } }

C11_RowsOf(rows, email) == {i \in 1..Len(rows) : rows[i].email = email}

CardEntryActs == {"fill_number", "fill_expiry", "fill_cvv", "fill_zip", "save"}
Performed(a) == \E i \in 1..Len(acts) : acts[i] = a
NoCardEntry == entered = <<>> /\ \A i \in 1..Len(acts) : acts[i] \notin CardEntryActs

\* C1: whatever the page and the external collaborators do, the entry point
\* ends by returning a (success, message) pair: no exception reaches its
\* caller.
C1_AlwaysReturnsPair ==
    pc = "done" => ret.state = "returned"

\* C2: in bind_card_sync with close_after=True, once openBrowser has
\* reported success, closeBrowser has been called exactly once when the run
\* is over, on every exit path, and never more than once on the way.
C2_ClosedExactlyOnce ==
    (IsSync /\ close_after /\ opened) =>
        /\ closeCalls <= 1
        /\ pc = "done" => closeCalls = 1

\* C2 witness: the run succeeded, writing the bind record failed, and the
\* browser was closed once.
C2_Witness ==
    /\ IsSync /\ close_after /\ pc = "done"
    /\ abc.success /\ bindlog = <<>>
    /\ ret = Returned(Result(FALSE, "bind_error"))
    /\ closeCalls = 1

\* C3 as stated: when the pre-check clicked an existing Subscribe affordance
\* and the scan found "Subscribed", the run returns success,
\* move_to_subscribed was invoked, and no card-entry action happened.
C3_AsStated ==
    (abc.done /\ marker = "subscribed" /\ Performed("subscribe_existing")) =>
        /\ abc.success
        /\ moveCalls = 1
        /\ NoCardEntry

\* C3 (amended): in that case the run returns success and no card-entry
\* action happened; move_to_subscribed was invoked when the run had an
\* account email, and was not invoked when it had none.
C3_AlreadyBoundSubscribed ==
    (abc.done /\ marker = "subscribed" /\ Performed("subscribe_existing")) =>
        /\ abc.success
        /\ NoCardEntry
        /\ HasEmail => moveCalls = 1
        /\ ~HasEmail => moveCalls = 0

\* C3 witness: such a run with an account email has returned.
C3_Witness ==
    /\ abc = Result(TRUE, "already_bound_subscribed")
    /\ marker = "subscribed" /\ Performed("subscribe_existing")
    /\ HasEmail /\ moveCalls = 1

C5_SuccessMovesAccount ==
    (abc.done /\ abc.success /\ HasEmail) => moveCalls >= 1

\* C6: bind_card_sync appends one record when the run succeeded and none when
\* it failed, and the record's second field is the last four digits of the
\* card number entered in that run (here: whenever a record was written and
\* a card number was entered).
C6_RecordHasLast4OfEnteredCard ==
    (IsSync /\ pc = "done") =>
        /\ Len(bindlog) <= 1
        /\ ~abc.success => bindlog = <<>>
        /\ (bindlog # <<>> /\ entered # <<>>) => bindlog[1].last4 = LastN(entered, 4)

\* C7: nothing written to the log output or to the bind record holds card
\* data other than the last 4 digits of the card number (here: in a run of
\* bind_card_sync).
C7_NoCardDataInLogs ==
    IsSync =>
        /\ \A p \in printed : p.what = "number" /\ p.text = LastN(CardUsed.number, 4)
        /\ \A i \in 1..Len(bindlog) :
              bindlog[i].last4 \in {LastN(CardUsed.number, 4), NotAvailable}

\* the place of an action in the funnel
C12_Rank ==
    [a \in {"cta", "subscribe_confirm", "subscribe_existing", "got_it", "cta_again",
            "existing_card", "add_card", "fill_number", "fill_expiry", "fill_cvv",
            "fill_zip", "save", "subscribe_final"} |->
        CASE a = "cta" -> 1 [] a = "subscribe_confirm" -> 2 [] a = "subscribe_existing" -> 3
          [] a = "got_it" -> 4 [] a = "cta_again" -> 5 [] a = "existing_card" -> 6
          [] a = "add_card" -> 7 [] a = "fill_number" -> 8 [] a = "fill_expiry" -> 9
          [] a = "fill_cvv" -> 10 [] a = "fill_zip" -> 11 [] a = "save" -> 12
          [] a = "subscribe_final" -> 13]

\* the results the card-entry stage and the steps after it end a run with
C12_CardStageResults ==
    { Result(FALSE, "add_card_failed"), Result(FALSE, "bind_error"),
      Result(FALSE, "card_form_frame_not_found"), Result(FALSE, "too_few_inputs"),
      Result(FALSE, "fill_number_failed"), Result(FALSE, "fill_expiry_failed"),
      Result(FALSE, "fill_cvv_failed"), Result(FALSE, "save_not_found"),
      Result(FALSE, "save_click_failed"), Result(TRUE, "bind_ok"), Result(TRUE, "bind_done"),
      Result(TRUE, "bind_subscribed_confirmed"), Result(TRUE, "bind_subscribed") }

\* C12 as stated: once the scan after the click on the existing Subscribe
\* found no "Subscribed" and an "Error" marker, the run has dismissed the
\* dialog, clicked the CTA again and clicked the existing card, in that
\* order, and goes on into the card entry, whose result is the run's.
C12_AsStated ==
    marker = "error" =>
        /\ \E i, j, k \in 1..Len(acts) :
              /\ i < j /\ j < k
              /\ acts[i] = "got_it" /\ acts[j] = "cta_again" /\ acts[k] = "existing_card"
        /\ abc.done => abc \in C12_CardStageResults

\* C12 (amended): in that case the run does not return at that point; those
\* of the three clicks that were performed (each is performed only when its
\* element is found) come in the order dismiss, CTA, existing card, after
\* the click on Subscribe and before every action of the card entry; the
\* run goes on into the card entry, whose result is the run's; the account
\* store is not touched before the card entry is over.
C12_ReplacementFallsThrough ==
    marker = "error" =>
        /\ pc # "precheck_verify"
        /\ \A i, j \in 1..Len(acts) : i < j => C12_Rank[acts[i]] < C12_Rank[acts[j]]
        /\ abc.done => abc \in C12_CardStageResults
        /\ (~abc.done /\ pc \notin {"abc_done", "finally", "done"}) =>
              /\ pc \in {"add_card", "find_frame", "card_number", "card_expiry", "card_cvv",
                          "card_zip", "save", "before_subscribe", "final_subscribe",
                          "final_verify"}
              /\ moveCalls = 0

\* C12 witness: all three replacement clicks were performed, the card was
\* entered and saved, and the run succeeded.
C12_Witness ==
    /\ marker = "error"
    /\ Performed("got_it") /\ Performed("cta_again") /\ Performed("existing_card")
    /\ Performed("save")
    /\ abc = Result(TRUE, "bind_subscribed_confirmed")


\* C13: when the card form frame holds fewer than 3 inputs, the run returns
\* the failure for too few inputs, no input was filled, Save was not clicked
\* and the account store was not updated.
C13_TooFewInputs ==
    (input_count # NotCounted /\ input_count < 3) =>
        /\ abc = Result(FALSE, "too_few_inputs")
        /\ NoCardEntry
        /\ ~Performed("save")
        /\ moveCalls = 0
        /\ IsSync => bindlog = <<>>

\* C13 witness: two inputs were counted after the replacement steps, and the
\* entry point returned the failure.
C13_Witness ==
    /\ input_count = 2 /\ marker = "error" /\ Performed("add_card")
    /\ ret = Returned(Result(FALSE, "too_few_inputs"))

\* the position of the first occurrence of action a in acts, 0 when absent
C14_At(a) ==
    IF Performed(a) THEN CHOOSE i \in 1..Len(acts) : acts[i] = a /\ \A j \in 1..(i - 1) : acts[j] # a
    ELSE 0

\* C14: Save is clicked only after input 0 was filled with the card number,
\* input 1 with the normalised month followed by the normalised year, and
\* input 2 with the CVV, in that order; a failure at one of the three
\* fields, or at the Save button (none found, or its click raises), ends
\* the run with that step's failure, no later field filled, Save not clicked.
C14_SaveAfterFills ==
    /\ Len(typed) <= 4
    /\ \A k \in 1..Len(typed) : k <= 3 => typed[k].input = k - 1
    /\ Len(typed) >= 1 => typed[1].text = CardUsed.number
    /\ Len(typed) >= 2 =>
          typed[2].text = _normalize_exp_parts(CardUsed.exp_month, CardUsed.exp_year)[1]
                          \o _normalize_exp_parts(CardUsed.exp_month, CardUsed.exp_year)[2]
    /\ Len(typed) >= 3 => typed[3].text = CardUsed.cvv
    /\ Performed("save") =>
          /\ Len(typed) >= 3
          /\ 0 < C14_At("fill_number") /\ C14_At("fill_number") < C14_At("fill_expiry")
          /\ C14_At("fill_expiry") < C14_At("fill_cvv") /\ C14_At("fill_cvv") < C14_At("save")
    /\ abc = Result(FALSE, "fill_number_failed") => (typed = <<>> /\ NoCardEntry)
    /\ abc = Result(FALSE, "fill_expiry_failed") =>
          (Len(typed) = 1 /\ ~Performed("fill_cvv") /\ ~Performed("fill_zip") /\ ~Performed("save"))
    /\ abc = Result(FALSE, "fill_cvv_failed") =>
          (Len(typed) = 2 /\ ~Performed("fill_zip") /\ ~Performed("save"))
    /\ abc \in {Result(FALSE, "save_not_found"), Result(FALSE, "save_click_failed")} =>
          (Len(typed) >= 3 /\ ~Performed("save"))
    /\ (pc \in {"card_expiry", "card_cvv", "card_zip", "save"} /\ ~abc.done) =>
          Len(typed) >= (CASE pc = "card_expiry" -> 1 [] pc = "card_cvv" -> 2 [] OTHER -> 3)

\* C14 witness: the card given as month 3 of 2026 was typed as 0326, the
\* postal code went into input 3, and Save was clicked.
C14_Witness ==
    /\ Performed("save") /\ Len(typed) = 4
    /\ card_info.given /\ card_info.exp_month = <<"3">>
    /\ typed[2] = [input |-> 1, text |-> <<"0", "3", "2", "6">>]
    /\ typed[4].input = 3

\* C15: the card form frame is searched for at most twice; when both scans
\* find none the run returns the frame-not-found failure and no card field
\* is filled; a frame that is found has a URL that holds the card-form
\* substring 'instrumentmanager'; no card field is filled without a frame.
C15_FrameSearch ==
    /\ card_frame.scans <= 2
    /\ (card_frame.scans = 2 /\ ~card_frame.found) =>
          abc = Result(FALSE, "card_form_frame_not_found") /\ NoCardEntry
    /\ abc = Result(FALSE, "card_form_frame_not_found") =>
          card_frame.scans = 2 /\ ~card_frame.found
    /\ ~card_frame.found => NoCardEntry
    /\ card_frame.found => card_frame.url.instrumentmanager

\* C16: check_and_login reports "already logged in" only from the detection
\* of the email field, when the field did not appear; once the field was
\* detected, the stage does not end with that outcome.
C16_AlreadyLoggedInOnlyWithoutEmailField ==
    [][ (~login.done /\ login' = Result(TRUE, "already_logged_in")) => pc = "abc_start" ]_vars

\* C17: when the manual-verification marker was detected after the
\* recovery-email handling, check_and_login has returned failure,
\* auto_bind_card returns the login failure, and the run performs no funnel
\* action and does not touch the account store.
C17_ManualVerificationFails ==
    manual =>
        /\ login = Result(FALSE, "need_manual_verification")
        /\ acts = <<>> /\ NoCardEntry /\ moveCalls = 0
        /\ abc.done => abc = Result(FALSE, "login_failed: need_manual_verification")
        /\ pc \in {"after_login", "abc_done", "finally", "done"}
        /\ (pc = "done" /\ ret.state = "returned" /\ IsSync) => ~ret.success

\* C17 witness: bind_card_sync returned the login failure after the marker
\* was detected.
C17_Witness ==
    /\ manual /\ IsSync /\ pc = "done"
    /\ ret = Returned(Result(FALSE, "login_failed: need_manual_verification"))


(***************************************************************************)
(* Properties of the selector-fallback loops.                              *)
(***************************************************************************)
\* the k-th candidate tried has a visible match
C18_Visible(k) == sel_seen[k].cand.match /\ sel_seen[k].cand.visible

\* the candidates are tried in list order, scope after scope
C18_InOrder ==
    \A k \in 1..Len(sel_seen) :
        /\ sel_seen[k].scope = ((k - 1) \div MaxCandidates) + 1
        /\ sel_seen[k].idx = ((k - 1) % MaxCandidates) + 1

\* C18 as stated: candidates are tried in list order; the first candidate
\* with a visible match is the one clicked and no later candidate or scope
\* is clicked; the loop ends without an exception and the flow goes on.
C18_AsStated ==
    /\ C18_InOrder
    /\ \A k \in 1..Len(sel_seen) :
          (C18_Visible(k) /\ \A j \in 1..(k - 1) : ~C18_Visible(j)) =>
              sel_clicked = <<[scope |-> sel_seen[k].scope, idx |-> sel_seen[k].idx]>>
    /\ sel_pc \in {"loop", "after_loop", "next_step"}

\* C18 (amended): candidates are tried in list order, scope after scope; at
\* most one candidate is clicked: the first one that has a visible match
\* and whose click does not raise (a candidate whose query or click raises
\* is passed over like one without a visible match); nothing is tried after
\* it; when none is clicked every candidate of every scope was tried; the
\* loop ends without an exception and the flow goes on.
C18_FirstClickableIsClicked ==
    /\ C18_InOrder
    /\ Len(sel_clicked) <= 1
    /\ \A k \in 1..Len(sel_seen) :
          LET ok == C18_Visible(k) /\ sel_seen[k].cand.raises = "none"
          IN  /\ ok => /\ k = Len(sel_seen)
                       /\ sel_clicked = <<[scope |-> sel_seen[k].scope, idx |-> sel_seen[k].idx]>>
              /\ (~ok /\ k = Len(sel_seen)) => sel_clicked = <<>>
    /\ (sel_pc # "loop" /\ sel_clicked = <<>>) => Len(sel_seen) = sel_scopes * MaxCandidates
    /\ sel_pc \in {"loop", "after_loop", "next_step"}

\* C18 witness: the subscribe confirmation passed over a hidden match, a
\* raising query and a raising click, clicked a candidate of the second
\* scope, and the flow went on.
C18_Witness ==
    /\ sel_kind = "subscribe" /\ sel_pc = "next_step"
    /\ sel_clicked = <<[scope |-> 2, idx |-> 2]>>
    /\ sel_seen[1].cand = Candidate(TRUE, FALSE, "none")
    /\ sel_seen[2].cand = Candidate(FALSE, FALSE, "query")
    /\ sel_seen[3].cand = Candidate(TRUE, TRUE, "click")


(***************************************************************************)
(* Properties of the postal code step.                                     *)
(***************************************************************************)
\* C19: the postal code is filled into at most one input: the first input
\* of index 3 or more whose type is 'tel' or that is the last input; with
\* exactly 3 inputs or without a postal code nothing is filled; when no
\* call fails, a configured postal code is filled whenever there are more
\* than 3 inputs; a failure of the step never ends the run: the Save step
\* follows.
C19_PostalCode ==
    /\ Len(zip_filled) <= 1
    /\ \A k \in 1..Len(zip_filled) :
          LET i == zip_filled[k]
          IN  /\ i >= 3 /\ i < zip_count
              /\ zip_types[i] = "tel" \/ i = zip_count - 1
              /\ \A j \in 3..(i - 1) : zip_types[j] # "tel"
    /\ (zip_count = 3 \/ zip_code = <<>>) => (zip_filled = <<>> /\ ~zip_failed)
    /\ (zip_pc = "save" /\ zip_code # <<>> /\ zip_count > 3 /\ ~zip_failed) =>
          Len(zip_filled) = 1
    /\ zip_failed => (zip_pc = "save" /\ zip_filled = <<>>)
    /\ zip_pc \in {"start", "loop", "save"}

\* C19 witness: of six inputs the one of index 4 is the first of type 'tel',
\* and the postal code went into it, not into the last one.
C19_Witness ==
    /\ zip_pc = "save" /\ zip_count = 6
    /\ zip_types[3] = "text" /\ zip_types[4] = "tel" /\ zip_types[5] = "tel"
    /\ zip_filled = <<4>>


(***************************************************************************)
(* Properties of concurrent runs.                                          *)
(***************************************************************************)
\* C20: two runs for different accounts share no file: every file that was
\* written was written by one run only.
C20_NoSharedFiles ==
    \A f \in DOMAIN files :
        \A i, j \in 1..Len(files[f]) : files[f][i] = files[f][j]


(***************************************************************************)
(* Properties of the entry points.                                         *)
(***************************************************************************)
\* C21: in bind_card_sync with close_after=False, closeBrowser is never
\* called, on any exit path, the one where openBrowser succeeded without a
\* WebSocket endpoint included.
C21_KeptOpenNeverClosed ==
    (IsSync /\ ~close_after) => closeCalls = 0


\* C22: when an entry point returns after the auto_bind_card run it wrapped,
\* it returns success=True only if that run returned success=True (so it
\* returns success=False whenever the run returned success=False).
C22_EntrySuccessIsRunSuccess ==
    (pc = "done" /\ abc.done /\ ret.state = "returned") =>
        (ret.success => abc.success)


\* C23: once Save has been clicked in the card-entry stage, auto_bind_card
\* returns success=True on every continuation; no path after the Save click
\* returns success=False.
C23_AfterSaveAlwaysSuccess ==
    (abc.done /\ Performed("save")) => abc.success


(***************************************************************************)
(* Properties of export followed by import.                                *)
(***************************************************************************)
\* the fields of a record that an export followed by an import carries
C24_Fields(row) == <<row.email, row.password, row.recovery_email, row.secret_key>>

\* C24: after an export and an import of the exported content into an empty
\* store that reported no error, every exported account has an imported
\* record with the same email, password, recovery_email and secret_key,
\* also when an intermediate field is empty while a later one is set.
C24_ExportImportRoundTrip ==
    (rt_pc = "imported" /\ restored.errors = <<>>) =>
        \A i \in 1..Len(store) :
            \E j \in 1..Len(restored.rows) :
                C24_Fields(restored.rows[j]) = C24_Fields(store[i])

====
